---- MODULE Spec2Model ----
(***************************************************************************)
(* A model of pino-transport-rotating-file (pinoTransportRotatingFile and  *)
(* its helpers): the buffered Error Logger, the 'rotated' listener with    *)
(* compressFile, the compression ledger and its expiry timeouts, the line  *)
(* pipeline and close, the Config Validator, the Filename Generator and    *)
(* the Retention Sweeper.                                                  *)
(*                                                                         *)
(* Every await of the source is one step of the model: the action that     *)
(* resumes a task reads the file system as it is when the awaited call     *)
(* settles, and runs the synchronous code up to the next await.  The       *)
(* results of file-system calls that can fail for reasons outside the      *)
(* program (I/O faults) are inputs chosen with \E.                         *)
(***************************************************************************)
EXTENDS Integers, Sequences, FiniteSets, TLC

VARIABLES
    errorLogFile,    \* option errorLogFile is set (TRUE) or undefined (FALSE)
    compress,        \* option compress
    skipPretty,      \* option skipPretty
    retentionDays,   \* option retentionDays
    errorLogger,     \* the closure of createErrorLogger: buffer, flushInterval,
                     \*   and the texts handed to the sink so far
    logged,          \* every line passed through log, in call order
    uncaught,        \* an 'error' event was emitted with no listener
    src,             \* file system: rotated path -> "absent" | "file" | "dir"
    gz,              \* file system: path + ".gz" -> "absent" | "partial" | "complete"
    tasks,           \* the invocations of the 'rotated' listener, in arrival order
    compressedFiles, \* the ledger: the set of keys of the Map
    ledgerTimers,    \* pending setTimeout callbacks: path -> how many
    compressedAt,    \* the values of the Map: path -> Date.now() when it was set
    ledgerDue,       \* path -> the instants its pending timeouts are due, in order
    attempts,        \* path -> compression pipelines started since its last expiry
    cleanupInterval, \* the retention setInterval is armed
    inbound,         \* number of lines the producer has handed to the transport
    formatFailed,    \* the lines (by arrival number) whose formatting threw
    engineLines,     \* the chunks written to rotatingStream, in order
    loopback,        \* the chunks piped back into source's own writable side
    pipelineState,   \* "up" | "failing" (destroyed, callback due) | "destroyed"
    engineState,     \* rotatingStream: "open" | "ending" | "finished"
    closeState,      \* close(): "open" (not called) | "awaiting" | "closed"
    closeTrace,      \* what close has called so far, in call order
    closeMark,       \* how many lines had been logged when close was called
    options,         \* the other options: dir, filename, enabled, size, interval,
                     \*   timestampFormat
    phase,           \* pinoTransportRotatingFile(options): "new" (not called) |
                     \*   "sweeping" (at await cleanupOldFiles) | "active" |
                     \*   "disabled" | "failed" (it threw)
    created,         \* the parts of the transport that exist
    thrown,          \* the error pinoTransportRotatingFile threw
    forwarded,       \* the lines a disabled transport has passed on, in order
    dateNow,         \* Date.now(), in milliseconds
    files,           \* the entries of dir: name -> [kind, mtimeMs]
    sweeps,          \* the invocations of cleanupOldFiles, in call order
    unlinked,        \* what the sweeps have deleted: [name, mtimeMs, cutoff]
    genIn,           \* the arguments of one call of generator
    genOut           \* what that call returned

vars == <<errorLogFile, compress, skipPretty, retentionDays, errorLogger, logged,
          uncaught, src, gz, tasks, compressedFiles, ledgerTimers, attempts,
          compressedAt, ledgerDue, cleanupInterval, inbound, formatFailed,
          engineLines, loopback, pipelineState, engineState, closeState, closeTrace, closeMark,
          options, phase, created, thrown, forwarded, dateNow, files, sweeps,
          unlinked, genIn, genOut>>

configVars == <<errorLogFile, compress, skipPretty, retentionDays>>
ledgerVars == <<compressedFiles, ledgerTimers, compressedAt, ledgerDue>>
compressionVars == <<src, gz, tasks, ledgerVars, attempts>>
pipelineVars == <<inbound, formatFailed, engineLines, loopback, pipelineState>>
closeVars == <<cleanupInterval, engineState, closeState, closeTrace, closeMark>>
lifeVars == <<options, phase, created, thrown, forwarded>>
sweepVars == <<dateNow, files, sweeps, unlinked>>
genVars == <<genIn, genOut>>
restVars == <<lifeVars, sweepVars, genVars>>

(***************************************************************************)
(* Bounds of the model.                                                    *)
(***************************************************************************)
MaxRotated == 2      \* 'rotated' notifications delivered in one run
MaxLines == 2        \* lines the producer writes in one run
MaxLogCalls == 102   \* log calls in one run of the Error Logger alone
MaxTimerWrites == 1  \* sink writes by the timer or destroy in one such run
MaxSweeps == 2       \* retention sweeps in one run: at startup, and one a day later
MaxAdvances == 3     \* half days the clock of the ledger moves on in one run

(***************************************************************************)
(* Program constants.                                                      *)
(***************************************************************************)
bufferSize == 100    \* createErrorLogger(errorLogFile, 100, errorFlushIntervalMs)

\* const MAX_COMPRESSION_AGE = 24 * 60 * 60 * 1000
MAX_COMPRESSION_AGE == 24 * 60 * 60 * 1000

Paths == {"app-1.log", "app-2.log"}
NoError == "undefined"

\* What stat gives for an entry of dir.
entry(kind, mtimeMs) == [kind |-> kind, mtimeMs |-> mtimeMs]

\* The rotated paths are files of dir: the name readdir reports for each.
basename(p) ==
    IF p = "app-1.log" THEN <<"a", "p", "p", "-", "1", ".", "l", "o", "g">>
    ELSE <<"a", "p", "p", "-", "2", ".", "l", "o", "g">>

IsRotatedName(file) == \E p \in Paths : basename(p) = file

rotatedPath(file) == CHOOSE p \in Paths : basename(p) = file

(***************************************************************************)
(* The event loop.  An 'error' event with no listener is thrown as an      *)
(* uncaught exception, which ends the process: nothing runs after it.  The *)
(* continuation of an await whose promise has been resolved is a promise   *)
(* job, and runs before the next timer or I/O callback.  The only promise  *)
(* the model resolves apart from its continuation is the one close awaits. *)
(***************************************************************************)
\* close that does not wait for the callback of rotatingStream.end.
closeMayReturnUnawaited(engine) == TRUE

\* await new Promise((resolve) => rotatingStream.end(() => resolve()))
closeMayReturn(engine) == engine = "finished"

JobPending == closeState = "awaiting" /\ closeMayReturn(engineState)

\* The event loop may run a timer callback, an I/O callback or an event.
Ready == ~uncaught /\ ~JobPending

(***************************************************************************)
(* Error Logger (createErrorLogger).                                       *)
(*                                                                         *)
(* A string is the sequence of its pieces: a message is the pieces of the   *)
(* caller's template literal, a line those of the template literal of log, *)
(* and join concatenates.  The instant of a line is the number of the log  *)
(* call.                                                                   *)
(***************************************************************************)
RECURSIVE join(_)
join(buffer) ==
    IF buffer = <<>> THEN <<>> ELSE Head(buffer) \o join(Tail(buffer))

\* `${new Date().toISOString()} - ${message}${error ? `: ${error}` : ''}\n`
logMessage(now, message, error) ==
    <<ToString(now), " - ">> \o message
        \o (IF error # NoError THEN <<": ", error>> ELSE <<>>)
        \o <<"\n">>

\* The sink of one flush: createWriteStream(errorLogFile, {flags: 'a'}).write(text),
\* which completes later, or console.error(text), which has written on return.
sinkWrite(text) ==
    [text |-> text, status |-> IF errorLogFile THEN "pending" ELSE "written"]

\* A flush that drops the buffer without handing it to the sink.
flushDropping(el) ==
    [el EXCEPT !.buffer = <<>>]

flush(el) ==
    IF Len(el.buffer) = 0 THEN el
    ELSE [el EXCEPT !.buffer = <<>>,
                    !.sink = Append(@, sinkWrite(join(el.buffer)))]

\* A log that flushes only when the buffer has grown past bufferSize.
logLateFlush(el, line) ==
    LET el1 == [el EXCEPT !.buffer = Append(@, line)]
    IN  IF Len(el1.buffer) > bufferSize THEN flush(el1) ELSE el1

log(el, line) ==
    LET el1 == [el EXCEPT !.buffer = Append(@, line)]
    IN  IF Len(el1.buffer) >= bufferSize THEN flush(el1) ELSE el1

destroy(el) ==
    [flush(el) EXCEPT !.flushInterval = FALSE]

\* The state createErrorLogger returns: an empty buffer, the interval armed.
createErrorLogger ==
    [buffer |-> <<>>, flushInterval |-> TRUE, sink |-> <<>>]

\* The logger as the program sees it while it runs synchronous code: the closure
\* and the lines logged so far.  logCall is one call errorLogger.log(message, error).
CurL == [el |-> errorLogger, logged |-> logged]

SetL(L) ==
    /\ errorLogger' = L.el
    /\ logged' = L.logged

logCall(L, message, error) ==
    LET line == logMessage(Len(L.logged) + 1, message, error)
    IN  [el |-> log(L.el, line), logged |-> Append(L.logged, line)]

\* setInterval(flush, flushIntervalMs) fires.
FlushTick ==
    /\ Ready
    /\ errorLogger.flushInterval
    /\ errorLogger' = flush(errorLogger)
    /\ UNCHANGED <<configVars, restVars, logged, uncaught, compressionVars, pipelineVars,
                   closeVars>>

\* A write stream opened by flush finishes its write.
SinkWritten ==
    \E i \in 1..Len(errorLogger.sink) :
        /\ Ready
        /\ errorLogger.sink[i].status = "pending"
        /\ errorLogger' = [errorLogger EXCEPT !.sink[i].status = "written"]
        /\ UNCHANGED <<configVars, restVars, logged, uncaught, compressionVars,
                       pipelineVars, closeVars>>

\* A write stream opened by flush fails to open or to write: it emits 'error',
\* and flush attached no listener, so the event is thrown where it is emitted.
SinkFailed ==
    \E i \in 1..Len(errorLogger.sink) :
        /\ Ready
        /\ errorLogger.sink[i].status = "pending"
        /\ errorLogger' = [errorLogger EXCEPT !.sink[i].status = "failed"]
        /\ uncaught' = TRUE
        /\ UNCHANGED <<configVars, restVars, logged, compressionVars, pipelineVars,
                       closeVars>>

(***************************************************************************)
(* The 'rotated' listener and compressFile.                                *)
(*                                                                         *)
(* A task is one invocation of the listener.  pc names the await it is     *)
(* suspended at: "stat" (stat(rotatedFile)), then inside compressFile      *)
(* "exists" (fileExists(src)), "cstat" (stat(src)), "stream"               *)
(* (pipelineAsync), "verify" (fileExists(dest)), "unlink" (unlink(src)).   *)
(***************************************************************************)
newTask(p) ==
    [path |-> p, pc |-> "stat", outcome |-> "pending", failed |-> FALSE,
     reported |-> FALSE, streamed |-> FALSE, verified |-> FALSE,
     unlinked |-> FALSE, recorded |-> FALSE]

\* if (compressedFiles.has(rotatedFile)) return;
skipTask(p) ==
    [newTask(p) EXCEPT !.pc = "done", !.outcome = "resolved"]

\* The listener without its try/catch: the failure rejects the listener's promise.
listenerNoCatch(L, t, err) ==
    [L |-> L, task |-> [t EXCEPT !.pc = "done", !.outcome = "rejected",
                                 !.failed = TRUE]]

\* catch (err) { errorLogger.log(`Error compressing rotated file ...`, err); }
listenerCatch(L, t, err) ==
    [L |-> logCall(L, <<"Error compressing rotated file ", t.path>>, err),
     task |-> [t EXCEPT !.pc = "done", !.outcome = "resolved", !.failed = TRUE,
                        !.reported = TRUE]]

\* compressFile: catch (error) { errorLogger.log(...); throw error; }
compressFileCatch(L, t, err) ==
    listenerCatch(logCall(L, <<"Error compressing file ", t.path>>, err), t, err)

\* generator(null): the file the engine writes to.
liveName == options.filename \o <<".", "l", "o", "g">>

\* The engine rotates by renaming the live file, which keeps its modification
\* time; with no live file in dir the rotated file is new.
rotatedEntry ==
    IF files[liveName].kind = "file" THEN files[liveName]
    ELSE entry("file", dateNow)

\* The engine emits 'rotated' with path p; fresh: it has just created the file.
Rotated ==
    \E p \in Paths, fresh \in BOOLEAN :
        /\ Ready
        /\ compress
        /\ "rotatedListener" \in created
        /\ engineState # "finished"
        /\ Len(tasks) < MaxRotated
        /\ fresh => src[p] = "absent"
        /\ src' = IF fresh THEN [src EXCEPT ![p] = "file"] ELSE src
        /\ files' = IF fresh THEN [files EXCEPT ![basename(p)] = rotatedEntry]
                    ELSE files
        /\ tasks' = Append(tasks, IF p \in compressedFiles THEN skipTask(p)
                                  ELSE newTask(p))
        /\ UNCHANGED <<configVars, lifeVars, genVars, dateNow, sweeps, unlinked,
                       errorLogger, logged, uncaught, gz, ledgerVars, attempts,
                       pipelineVars, closeVars>>

\* compressedFiles.set(rotatedFile, Date.now()); setTimeout(..., MAX_COMPRESSION_AGE)
Record(h) ==
    /\ compressedFiles' = compressedFiles \cup {tasks[h].path}
    /\ compressedAt' = [compressedAt EXCEPT ![tasks[h].path] = dateNow]
    /\ ledgerTimers' = [ledgerTimers EXCEPT ![tasks[h].path] = @ + 1]
    /\ ledgerDue' = [ledgerDue EXCEPT ![tasks[h].path] =
                        Append(@, dateNow + MAX_COMPRESSION_AGE)]

Fail(h, r) ==
    /\ SetL(r.L)
    /\ tasks' = [tasks EXCEPT ![h] = r.task]
    /\ UNCHANGED <<ledgerVars>>

\* compressFile returned: the listener records the path and ends.
Returned(h, t) ==
    /\ tasks' = [tasks EXCEPT ![h] = [t EXCEPT !.pc = "done",
                                               !.outcome = "resolved",
                                               !.recorded = TRUE]]
    /\ Record(h)

\* await stat(rotatedFile) settles.
StatRotated ==
    \E h \in 1..Len(tasks), fault \in BOOLEAN :
        LET t == tasks[h]
            p == t.path
        IN  /\ Ready
            /\ t.pc = "stat"
            /\ IF fault \/ src[p] = "absent"
                 THEN Fail(h, listenerCatch(CurL, t,
                                 IF src[p] = "absent" THEN "ENOENT" ELSE "EIO"))
               ELSE IF src[p] = "dir"
                 THEN /\ SetL(logCall(CurL,
                            <<"Skipping compression, rotated file is a directory: ",
                              p>>, NoError))
                      /\ tasks' = [tasks EXCEPT ![h] =
                            [t EXCEPT !.pc = "done", !.outcome = "resolved"]]
                      /\ UNCHANGED <<ledgerVars>>
               ELSE /\ tasks' = [tasks EXCEPT ![h].pc = "exists"]
                    /\ UNCHANGED <<errorLogger, logged, ledgerVars>>
            /\ UNCHANGED <<configVars, restVars, uncaught, src, gz, attempts, pipelineVars,
                           closeVars>>

\* compressFile: await fileExists(src) settles.  fileExists answers false on any
\* failure of access; access succeeds on a directory.
ExistsSrc ==
    \E h \in 1..Len(tasks), fault \in BOOLEAN :
        LET t == tasks[h]
            p == t.path
            exists == src[p] # "absent" /\ ~fault
        IN  /\ Ready
            /\ t.pc = "exists"
            /\ IF exists
                 THEN /\ tasks' = [tasks EXCEPT ![h].pc = "cstat"]
                      /\ UNCHANGED <<errorLogger, logged, ledgerVars>>
                 ELSE /\ SetL(logCall(CurL,
                            <<"Skipping compression, file does not exist: ", p>>,
                            NoError))
                      /\ Returned(h, t)
            /\ UNCHANGED <<configVars, restVars, uncaught, src, gz, attempts, pipelineVars,
                           closeVars>>

\* compressFile: await stat(src) settles; on a file, the three streams are created
\* and pipelineAsync is called.  createWriteStream(dest) opens with flag 'w'.
StatSrc ==
    \E h \in 1..Len(tasks), fault \in BOOLEAN :
        LET t == tasks[h]
            p == t.path
        IN  /\ Ready
            /\ t.pc = "cstat"
            /\ IF fault \/ src[p] = "absent"
                 THEN /\ Fail(h, compressFileCatch(CurL, t,
                                 IF src[p] = "absent" THEN "ENOENT" ELSE "EIO"))
                      /\ UNCHANGED <<gz, attempts>>
               ELSE IF src[p] = "dir"
                 THEN /\ SetL(logCall(CurL,
                            <<"Skipping compression, source is a directory: ", p>>,
                            NoError))
                      /\ Returned(h, t)
                      /\ UNCHANGED <<gz, attempts>>
               ELSE /\ tasks' = [tasks EXCEPT ![h].pc = "stream"]
                    /\ gz' = [gz EXCEPT ![p] = "partial"]
                    /\ attempts' = [attempts EXCEPT ![p] = @ + 1]
                    /\ UNCHANGED <<errorLogger, logged, ledgerVars>>
            /\ UNCHANGED <<configVars, restVars, uncaught, src, pipelineVars, closeVars>>

\* compressFile: await pipelineAsync(...) settles.  The read stream holds the file
\* it opened, so the pipeline can finish after another task unlinked src, and can
\* fail on any of its three streams.
StreamSettled ==
    \E h \in 1..Len(tasks), fault \in BOOLEAN :
        LET t == tasks[h]
            p == t.path
        IN  /\ Ready
            /\ t.pc = "stream"
            /\ IF fault
                 THEN /\ Fail(h, compressFileCatch(CurL, t, "EIO"))
                      /\ UNCHANGED gz
                 ELSE /\ tasks' = [tasks EXCEPT ![h].pc = "verify",
                                                ![h].streamed = TRUE]
                      /\ gz' = [gz EXCEPT ![p] = "complete"]
                      /\ UNCHANGED <<errorLogger, logged, ledgerVars>>
            /\ UNCHANGED <<configVars, restVars, uncaught, src, attempts, pipelineVars,
                           closeVars>>

\* The check of the destination left out: unlink follows the pipeline at once.
afterVerifyUnchecked(t, exists) ==
    [t EXCEPT !.pc = "unlink", !.verified = exists]

\* if (!(await fileExists(dest))) throw ...; await unlink(src)
afterVerify(t, exists) ==
    IF exists THEN [t EXCEPT !.pc = "unlink", !.verified = TRUE]
    ELSE [t EXCEPT !.pc = "throw"]

\* compressFile: await fileExists(dest) settles.
VerifyDest ==
    \E h \in 1..Len(tasks), fault \in BOOLEAN :
        LET t == tasks[h]
            p == t.path
            exists == gz[p] # "absent" /\ ~fault
            t1 == afterVerify(t, exists)
        IN  /\ Ready
            /\ t.pc = "verify"
            /\ IF t1.pc = "throw"
                 THEN Fail(h, compressFileCatch(CurL, t, "Compression failed"))
                 ELSE /\ tasks' = [tasks EXCEPT ![h] = t1]
                      /\ UNCHANGED <<errorLogger, logged, ledgerVars>>
            /\ UNCHANGED <<configVars, restVars, uncaught, src, gz, attempts, pipelineVars,
                           closeVars>>

\* compressFile: await unlink(src) settles; on success compressFile returns.
UnlinkSrc ==
    \E h \in 1..Len(tasks), fault \in BOOLEAN :
        LET t == tasks[h]
            p == t.path
        IN  /\ Ready
            /\ t.pc = "unlink"
            /\ IF fault \/ src[p] # "file"
                 THEN /\ Fail(h, compressFileCatch(CurL, t,
                                 IF src[p] = "absent" THEN "ENOENT" ELSE "EIO"))
                      /\ UNCHANGED <<src, files>>
                 ELSE /\ src' = [src EXCEPT ![p] = "absent"]
                      /\ files' = [files EXCEPT ![basename(p)] = entry("absent", 0)]
                      /\ Returned(h, [t EXCEPT !.unlinked = TRUE])
                      /\ UNCHANGED <<errorLogger, logged>>
            /\ UNCHANGED <<configVars, lifeVars, genVars, dateNow, sweeps, unlinked,
                           uncaught, gz, attempts, pipelineVars, closeVars>>

\* The instants at which some timeout of the ledger is due.
PendingDue ==
    UNION {{ledgerDue[q][k] : k \in 1..Len(ledgerDue[q])} : q \in Paths}

\* setTimeout(() => compressedFiles.delete(rotatedFile), MAX_COMPRESSION_AGE) fires:
\* the earliest pending timeout, when its delay has passed.
LedgerExpire ==
    \E p \in Paths :
        /\ Ready
        /\ ledgerTimers[p] > 0
        /\ \A due \in PendingDue : Head(ledgerDue[p]) <= due
        /\ dateNow' = IF dateNow < Head(ledgerDue[p]) THEN Head(ledgerDue[p])
                      ELSE dateNow
        /\ ledgerTimers' = [ledgerTimers EXCEPT ![p] = @ - 1]
        /\ ledgerDue' = [ledgerDue EXCEPT ![p] = Tail(@)]
        /\ compressedFiles' = compressedFiles \ {p}
        /\ compressedAt' = [compressedAt EXCEPT ![p] = 0]
        /\ attempts' = [attempts EXCEPT ![p] = 0]
        /\ UNCHANGED <<configVars, lifeVars, genVars, files, sweeps, unlinked,
                       errorLogger, logged, uncaught, src, gz, tasks,
                       pipelineVars, closeVars>>

(* The line pipeline: pipeline(source, prettyStream, rotatingStream, cb).  *)
(***************************************************************************)
chunk(n, pretty) == [line |-> n, pretty |-> pretty]

\* A rotation engine that still takes writes after end has been called on it.
engineAcceptsAfterEnd(engine) == TRUE

\* rotatingStream.end(...): a writable stream takes no write once end has been
\* called on it.
engineAccepts(engine) == engine = "open"

\* The producer writes its next line.  Once a stream of the pipeline has been
\* destroyed, or close has ended the engine, the line reaches nothing (close is
\* the destroy of source: it runs when source is torn down, and a line the
\* producer still writes is refused).  With skipPretty, prettyStream is source
\* itself, so source is piped into source and into rotatingStream.  Otherwise
\* transform calls callback(null, prettyLog), or, when formatting throws,
\* callback(error): the transform errors and pipeline destroys its streams, and
\* calls back on a later tick.
WriteLine ==
    \E throws \in BOOLEAN :
        LET n == inbound + 1
        IN  /\ Ready
            /\ inbound < MaxLines
            /\ inbound' = n
            /\ IF pipelineState # "up" \/ ~engineAccepts(engineState)
                 THEN UNCHANGED <<formatFailed, engineLines, loopback,
                                  pipelineState>>
               ELSE IF skipPretty
                 THEN /\ engineLines' = Append(engineLines, chunk(n, FALSE))
                      /\ loopback' = Append(loopback, chunk(n, FALSE))
                      /\ UNCHANGED <<formatFailed, pipelineState>>
               ELSE IF throws
                 THEN /\ formatFailed' = formatFailed \cup {n}
                      /\ pipelineState' = "failing"
                      /\ UNCHANGED <<engineLines, loopback>>
               ELSE /\ engineLines' = Append(engineLines, chunk(n, TRUE))
                    /\ UNCHANGED <<formatFailed, loopback, pipelineState>>
            /\ UNCHANGED <<configVars, restVars, errorLogger, logged, uncaught,
                           compressionVars, closeVars>>

\* (err) => { if (err) errorLogger.log('Failed to write log in transport', err); }
PipelineCallback ==
    /\ Ready
    /\ pipelineState = "failing"
    /\ pipelineState' = "destroyed"
    /\ SetL(logCall(CurL, <<"Failed to write log in transport">>, "Error"))
    /\ UNCHANGED <<configVars, restVars, uncaught, compressionVars, inbound, formatFailed,
                   engineLines, loopback, closeVars>>

(***************************************************************************)
(* close.                                                                  *)
(***************************************************************************)
\* errorLogger.destroy(); clearInterval(cleanupInterval); rotatingStream.end(cb)
closeCalls ==
    <<"errorLogger.destroy", "clearInterval", "rotatingStream.end">>

\* close() runs up to its await.
Close ==
    /\ Ready
    /\ closeState = "open"
    /\ closeState' = "awaiting"
    /\ closeTrace' = closeCalls
    /\ closeMark' = Len(logged)
    /\ errorLogger' = destroy(errorLogger)
    /\ cleanupInterval' = FALSE
    /\ engineState' = "ending"
    /\ UNCHANGED <<configVars, restVars, logged, uncaught, compressionVars, pipelineVars>>

\* The engine has flushed and closed its file and calls the callback of end.
EngineEnded ==
    /\ Ready
    /\ engineState = "ending"
    /\ engineState' = "finished"
    /\ UNCHANGED <<configVars, restVars, errorLogger, logged, uncaught, compressionVars,
                   pipelineVars, cleanupInterval, closeState, closeTrace,
                   closeMark>>

\* The promise close awaits is resolved: close returns.
CloseReturn ==
    /\ ~uncaught
    /\ JobPending
    /\ closeState' = "closed"
    /\ UNCHANGED <<configVars, restVars, errorLogger, logged, uncaught, compressionVars,
                   pipelineVars, cleanupInterval, engineState, closeTrace,
                   closeMark>>

(***************************************************************************)
(* Strings.  Where the code looks into a string (a regular expression,     *)
(* startsWith, slice, length) the string is the sequence of its            *)
(* characters.                                                             *)
(***************************************************************************)
Digit == {"0", "1", "2", "3", "4", "5", "6", "7", "8", "9"}

digitValue(c) ==
    CASE c = "0" -> 0 [] c = "1" -> 1 [] c = "2" -> 2 [] c = "3" -> 3
      [] c = "4" -> 4 [] c = "5" -> 5 [] c = "6" -> 6 [] c = "7" -> 7
      [] c = "8" -> 8 [] c = "9" -> 9

\* Number.parseInt(num, 10) of a string of digits.
RECURSIVE parseInt(_)
parseInt(num) ==
    IF num = <<>> THEN 0
    ELSE parseInt(SubSeq(num, 1, Len(num) - 1)) * 10 + digitValue(num[Len(num)])

startsWith(s, prefix) ==
    Len(prefix) <= Len(s) /\ SubSeq(s, 1, Len(prefix)) = prefix

endsWith(s, suffix) ==
    Len(suffix) <= Len(s) /\ SubSeq(s, Len(s) - Len(suffix) + 1, Len(s)) = suffix

(***************************************************************************)
(* Config Validator.  Each function gives the message of the Error it      *)
(* throws, or NoError when it returns.                                     *)
(***************************************************************************)
\* const sizeUnits = {B: 1, K: 1024, M: 1024 ** 2, G: 1024 ** 3}
sizeUnits ==
    ("B" :> 1) @@ ("K" :> 1024) @@ ("M" :> 1024 * 1024)
        @@ ("G" :> 1024 * 1024 * 1024)

\* const timeUnits = {s: 1000, m: 60 * 1000, h: ..., d: ..., M: 30 * 24 * 60 * 60 * 1000},
\* here in seconds.
timeUnits ==
    ("s" :> 1) @@ ("m" :> 60) @@ ("h" :> 60 * 60) @@ ("d" :> 24 * 60 * 60)
        @@ ("M" :> 30 * 24 * 60 * 60)

\* /^(\d+)([...])$/.exec(s): one digit or more, then one character of units.
matchNumUnit(s, units) ==
    /\ Len(s) >= 2
    /\ \A i \in 1..(Len(s) - 1) : s[i] \in Digit
    /\ s[Len(s)] \in units

\* !table[unit]: the unit is no key of the table, or its factor is 0.
unknownUnit(table, unit) ==
    unit \notin DOMAIN table \/ table[unit] = 0

validateSize(size) ==
    IF ~matchNumUnit(size, {"B", "K", "M", "G"})
      THEN "Invalid size format"
    ELSE IF parseInt(SubSeq(size, 1, Len(size) - 1)) <= 0
      THEN "Size must be positive"
    ELSE IF unknownUnit(sizeUnits, size[Len(size)])
      THEN "Unknown size unit"
    ELSE NoError

validateInterval(interval) ==
    IF ~matchNumUnit(interval, {"s", "m", "h", "d", "M"})
      THEN "Invalid interval format"
    ELSE IF parseInt(SubSeq(interval, 1, Len(interval) - 1)) <= 0
      THEN "Interval must be positive"
    ELSE IF unknownUnit(timeUnits, interval[Len(interval)])
      THEN "Unknown time unit"
    ELSE NoError

validFormats == {"iso", "unix", "utc", "rfc2822", "epoch"}

validateTimestampFormat(format) ==
    IF format \notin validFormats THEN "Invalid timestampFormat" ELSE NoError

\* The checks of pinoTransportRotatingFile with the size check left out.
validateWithoutSize(o) ==
    IF o.dir = "" THEN "Missing required option: dir"
    ELSE IF validateInterval(o.interval) # NoError
      THEN validateInterval(o.interval)
    ELSE validateTimestampFormat(o.timestampFormat)

\* if (!dir) throw ...; validateSize(size); validateInterval(interval);
\* validateTimestampFormat(timestampFormat): the first error thrown, if any.
validate(o) ==
    IF o.dir = "" THEN "Missing required option: dir"
    ELSE IF validateSize(o.size) # NoError THEN validateSize(o.size)
    ELSE IF validateInterval(o.interval) # NoError
      THEN validateInterval(o.interval)
    ELSE validateTimestampFormat(o.timestampFormat)

\* One day in milliseconds: 24 * 60 * 60 * 1000.
DayMs == 24 * 60 * 60 * 1000

(***************************************************************************)
(* Filename Generator (generator).                                         *)
(*                                                                         *)
(* An instant is a number of milliseconds since the epoch, given as a      *)
(* number or as a Date, or null.  The calendar fields are computed for     *)
(* instants within a month of the epoch.  The time zone of the process,    *)
(* which Date.prototype.toString uses, is part of the arguments.           *)
(***************************************************************************)
Alnum ==
    Digit \cup
    { "a", "b", "c", "d", "e", "f", "g", "h", "i", "j", "k", "l", "m", "n",
      "o", "p", "q", "r", "s", "t", "u", "v", "w", "x", "y", "z" }
    \cup
    { "A", "B", "C", "D", "E", "F", "G", "H", "I", "J", "K", "L", "M", "N",
      "O", "P", "Q", "R", "S", "T", "U", "V", "W", "X", "Y", "Z" }

\* n.toString() for an integer n >= 0.
RECURSIVE toDecimal(_)
toDecimal(n) ==
    IF n < 10 THEN <<ToString(n)>>
    ELSE toDecimal(n \div 10) \o <<ToString(n % 10)>>

\* The decimal digits of n, padded with zeros to width w.
RECURSIVE padStart(_, _)
padStart(n, w) ==
    IF Len(toDecimal(n)) >= w THEN toDecimal(n)
    ELSE <<"0">> \o padStart(n, w - 1)

dayNames ==
    << <<"S", "u", "n">>, <<"M", "o", "n">>, <<"T", "u", "e">>, <<"W", "e", "d">>,
       <<"T", "h", "u">>, <<"F", "r", "i">>, <<"S", "a", "t">> >>

\* Time zones of the process: offset from UTC in minutes, and how toString
\* writes the zone.
UTC ==
    [offsetMin |-> 0, sign |-> <<"+", "0", "0", "0", "0">>,
     name |-> <<"C", "o", "o", "r", "d", "i", "n", "a", "t", "e", "d", " ", "U", "n", "i", "v", "e", "r", "s", "a", "l", " ", "T", "i", "m", "e">>]

EST ==
    [offsetMin |-> -300, sign |-> <<"-", "0", "5", "0", "0">>,
     name |-> <<"E", "a", "s", "t", "e", "r", "n", " ", "S", "t", "a", "n", "d", "a", "r", "d", " ", "T", "i", "m", "e">>]

\* The calendar fields of the instant ms shifted by offsetMin minutes.
dateFields(ms, offsetMin) ==
    LET local == ms + offsetMin * 60 * 1000
        days == local \div DayMs
        rest == local % DayMs
    IN  [year |-> IF days >= 0 THEN 1970 ELSE 1969,
         month |-> IF days >= 0 THEN 1 ELSE 12,
         monthName |-> IF days >= 0 THEN <<"J", "a", "n">>
                                     ELSE <<"D", "e", "c">>,
         day |-> IF days >= 0 THEN days + 1 ELSE 32 + days,
         dayName |-> dayNames[((days + 4) % 7) + 1],
         hours |-> rest \div (60 * 60 * 1000),
         minutes |-> (rest \div (60 * 1000)) % 60,
         seconds |-> (rest \div 1000) % 60,
         millis |-> rest % 1000]

clock(d, sep) ==
    padStart(d.hours, 2) \o sep \o padStart(d.minutes, 2) \o sep
        \o padStart(d.seconds, 2)

\* _date.toISOString(): 1970-01-01T00:00:00.000Z
toISOString(ms) ==
    LET d == dateFields(ms, 0)
    IN  padStart(d.year, 4) \o <<"-">> \o padStart(d.month, 2) \o <<"-">>
            \o padStart(d.day, 2) \o <<"T">> \o clock(d, <<":">>) \o <<".">>
            \o padStart(d.millis, 3) \o <<"Z">>

\* _date.toUTCString(): Thu, 01 Jan 1970 00:00:00 GMT
toUTCString(ms) ==
    LET d == dateFields(ms, 0)
    IN  d.dayName \o <<",", " ">> \o padStart(d.day, 2) \o <<" ">> \o d.monthName
            \o <<" ">> \o padStart(d.year, 4) \o <<" ">> \o clock(d, <<":">>)
            \o <<" ">> \o <<"G", "M", "T">>

\* _date.toString() in time zone tz:
\* Thu Jan 01 1970 00:00:00 GMT+0000 (Coordinated Universal Time)
toLocalString(ms, tz) ==
    LET d == dateFields(ms, tz.offsetMin)
    IN  d.dayName \o <<" ">> \o d.monthName \o <<" ">> \o padStart(d.day, 2)
            \o <<" ">> \o padStart(d.year, 4) \o <<" ">> \o clock(d, <<":">>)
            \o <<" ">> \o <<"G", "M", "T">> \o tz.sign \o <<" ", "(">> \o tz.name \o <<")">>

\* s.replace(/[-:T]/g, '')
removeAll(s, chars) == SelectSeq(s, LAMBDA c : c \notin chars)

\* s.split('.')[0]
RECURSIVE beforeFirst(_, _)
beforeFirst(s, c) ==
    IF s = <<>> \/ Head(s) = c THEN <<>>
    ELSE <<Head(s)>> \o beforeFirst(Tail(s), c)

\* s.replace(/[^a-zA-Z0-9]/g, '-')
dashNonAlnum(s) == [i \in 1..Len(s) |-> IF s[i] \in Alnum THEN s[i] ELSE "-"]

\* s.replace(/-+/g, '-')
RECURSIVE collapseDashes(_)
collapseDashes(s) ==
    IF Len(s) < 2 THEN s
    ELSE IF s[1] = "-" /\ s[2] = "-" THEN collapseDashes(Tail(s))
    ELSE <<s[1]>> \o collapseDashes(Tail(s))

\* s.trim()
RECURSIVE trim(_)
trim(s) ==
    IF s # <<>> /\ Head(s) = " " THEN trim(Tail(s))
    ELSE IF s # <<>> /\ s[Len(s)] = " " THEN trim(SubSeq(s, 1, Len(s) - 1))
    ELSE s

\* s.slice(0, n)
slice0(s, n) == SubSeq(s, 1, IF Len(s) < n THEN Len(s) ELSE n)

\* join(dir, name) of node:path, for a dir and a name without '.' segments.
pathJoin(dir, name) ==
    IF dir = <<>> THEN name
    ELSE IF dir[Len(dir)] = "/" THEN dir \o name
    ELSE dir \o <<"/">> \o name

\* The switch of generator: the timestamp of instant ms in the given format.
timestampOf(ms, timestampFormat, tz) ==
    CASE timestampFormat = "unix" -> toDecimal(ms)
      [] timestampFormat = "utc" ->
            trim(collapseDashes(dashNonAlnum(toUTCString(ms))))
      [] timestampFormat = "rfc2822" ->
            trim(collapseDashes(dashNonAlnum(toLocalString(ms, tz))))
      [] timestampFormat = "epoch" -> toDecimal((ms + 500) \div 1000)
      [] OTHER ->
            beforeFirst(removeAll(toISOString(ms), {"-", ":", "T"}), ".")

\* !time: null is falsy, the number 0 is falsy, a Date object is truthy.
isFalsy(time) ==
    time.type = "null" \/ (time.type = "number" /\ time.ms = 0)

generator(time, dir, filename, timestampFormat) ==
    IF isFalsy(time) THEN pathJoin(dir, filename \o <<".", "l", "o", "g">>)
    ELSE LET format == IF timestampFormat = "undefined" THEN "iso"
                       ELSE timestampFormat
             timestamp == timestampOf(time.ms, format, genIn.tz)
             fullName == filename \o <<"-">> \o timestamp
                            \o <<".", "l", "o", "g">>
         IN  pathJoin(dir, IF Len(fullName) > 200 THEN slice0(fullName, 200)
                           ELSE fullName)

(***************************************************************************)
(* Retention Sweeper (cleanupOldFiles).                                    *)
(*                                                                         *)
(* A sweep is one invocation of cleanupOldFiles; pc names where it is      *)
(* suspended: "readdir" (await readdir(dir)), "all" (await Promise.all),   *)
(* "done" (it has returned).  Its entries are the invocations of the       *)
(* callback of map, one per file that passed the filter; all of them are   *)
(* started by map, each runs up to its await stat, and none is cancelled   *)
(* when Promise.all rejects.  pc of an entry: "stat", "unlink", "done".    *)
(***************************************************************************)
\* const cutoff = Date.now() - retentionDays * 24 * 60 * 60 * 1000
cutoffFor(nowMs, days) == nowMs - days * DayMs

\* file.startsWith(filename) && (file.endsWith('.log') || file.endsWith('.log.gz'))
matchesFilter(file, filename) ==
    /\ startsWith(file, filename)
    /\ \/ endsWith(file, <<".", "l", "o", "g">>)
       \/ endsWith(file, <<".", "l", "o", "g", ".", "g", "z">>)

\* A comparison that also takes a file modified exactly at the cutoff.
expiredOrAtCutoff(mtimeMs, cutoff) == mtimeMs <= cutoff

\* if (stats.mtimeMs < cutoff)
expired(mtimeMs, cutoff) == mtimeMs < cutoff

\* The names readdir can report, in the order it reports them.
DirOrder ==
    << <<"a", "p", "p", ".", "l", "o", "g">>,
       <<"a", "p", "p", "-", "1", ".", "l", "o", "g">>,
       <<"a", "p", "p", "-", "0", ".", "l", "o", "g", ".", "g", "z">>,
       <<"w", "e", "b", ".", "l", "o", "g">>,
       <<"a", "p", "p", ".", "g", "z">>,
       <<"a", "p", "p", "-", "2", ".", "l", "o", "g">> >>

Names == {DirOrder[k] : k \in 1..Len(DirOrder)}

newSweep ==
    [pc |-> "readdir", listedAt |-> 0, cutoff |-> 0, reports |-> 0,
     listFailed |-> FALSE, entries |-> <<>>]

newEntry(file) ==
    [file |-> file, pc |-> "stat", failed |-> FALSE, deleted |-> FALSE]

\* join(dir, file), as the pieces of a message.
filePath(file) == <<options.dir, "/">> \o file

\* An entry's callback throws: its promise rejects.  Promise.all rejects with the
\* first rejection, and the catch of cleanupOldFiles then logs and the sweep
\* returns; a rejection after Promise.all has settled has no effect.
entryRejects(sw, k, L, err) ==
    LET sw1 == [sw EXCEPT !.entries[k].pc = "done", !.entries[k].failed = TRUE]
    IN  IF sw.pc = "all"
          THEN [sw |-> [sw1 EXCEPT !.pc = "done", !.reports = @ + 1],
                L |-> logCall(L, <<"Error during log file cleanup in ",
                                   options.dir>>, err)]
          ELSE [sw |-> sw1, L |-> L]

\* An entry's callback returns: Promise.all resolves once every entry has.
entryResolves(sw) ==
    IF sw.pc = "all" /\ \A k \in 1..Len(sw.entries) : sw.entries[k].pc = "done"
      THEN [sw EXCEPT !.pc = "done"]
      ELSE sw

\* The sweep moves on.  When the sweep that pinoTransportRotatingFile awaits
\* returns, the function resumes: it arms the daily interval and returns build(...).
SweepStep(i, sw, L) ==
    /\ sweeps' = [sweeps EXCEPT ![i] = sw]
    /\ SetL(L)
    /\ IF phase = "sweeping" /\ sw.pc = "done"
         THEN /\ phase' = "active"
              /\ cleanupInterval' = TRUE
              /\ created' = created \cup {"cleanupInterval"}
         ELSE UNCHANGED <<phase, cleanupInterval, created>>
    /\ UNCHANGED <<configVars, uncaught, gz, tasks, ledgerVars, attempts,
                   pipelineVars, engineState, closeState, closeTrace, closeMark,
                   options, thrown, forwarded, dateNow, genVars>>

\* await readdir(dir) settles.
Readdir ==
    \E i \in 1..Len(sweeps), fault \in BOOLEAN :
        LET sw == sweeps[i]
            listing == SelectSeq(DirOrder, LAMBDA f : files[f].kind # "absent")
            matching ==
                SelectSeq(listing, LAMBDA f : matchesFilter(f, options.filename))
        IN  /\ Ready
            /\ sw.pc = "readdir"
            /\ IF fault
                 THEN SweepStep(i, [sw EXCEPT !.pc = "done", !.reports = @ + 1,
                                              !.listFailed = TRUE],
                                logCall(CurL, <<"Error during log file cleanup in ",
                                                options.dir>>, "EIO"))
                 ELSE SweepStep(i,
                        [sw EXCEPT !.pc = IF matching = <<>> THEN "done" ELSE "all",
                                   !.listedAt = dateNow,
                                   !.cutoff = cutoffFor(dateNow, retentionDays),
                                   !.entries = [k \in 1..Len(matching) |->
                                                   newEntry(matching[k])]],
                        CurL)
            /\ UNCHANGED <<files, src, unlinked>>

\* await stat(filePath) settles in one entry.
StatEntry ==
    \E i \in 1..Len(sweeps), fault \in BOOLEAN :
        \E k \in 1..Len(sweeps[i].entries) :
            LET sw == sweeps[i]
                e == sw.entries[k]
                r == entryRejects(sw, k, CurL,
                        IF files[e.file].kind = "absent" THEN "ENOENT" ELSE "EIO")
            IN  /\ Ready
                /\ e.pc = "stat"
                /\ IF fault \/ files[e.file].kind = "absent"
                     THEN SweepStep(i, r.sw, r.L)
                   ELSE IF expired(files[e.file].mtimeMs, sw.cutoff)
                     THEN SweepStep(i, [sw EXCEPT !.entries[k].pc = "unlink"], CurL)
                   ELSE SweepStep(i,
                          entryResolves([sw EXCEPT !.entries[k].pc = "done"]), CurL)
                /\ UNCHANGED <<files, src, unlinked>>

\* await unlink(filePath) settles in one entry; then errorLogger.log(`Deleted ...`).
UnlinkEntry ==
    \E i \in 1..Len(sweeps), fault \in BOOLEAN :
        \E k \in 1..Len(sweeps[i].entries) :
            LET sw == sweeps[i]
                e == sw.entries[k]
                f == files[e.file]
                r == entryRejects(sw, k, CurL,
                        IF f.kind = "absent" THEN "ENOENT"
                        ELSE IF f.kind = "dir" THEN "EISDIR" ELSE "EIO")
            IN  /\ Ready
                /\ e.pc = "unlink"
                /\ IF fault \/ f.kind # "file"
                     THEN /\ SweepStep(i, r.sw, r.L)
                          /\ UNCHANGED <<files, src, unlinked>>
                     ELSE /\ files' = [files EXCEPT ![e.file].kind = "absent"]
                          /\ src' = IF IsRotatedName(e.file)
                                      THEN [src EXCEPT ![rotatedPath(e.file)] =
                                                          "absent"]
                                    ELSE src
                          /\ unlinked' = unlinked \cup
                                {[file |-> e.file, mtimeMs |-> f.mtimeMs,
                                  cutoff |-> sw.cutoff]}
                          /\ SweepStep(i,
                                entryResolves([sw EXCEPT !.entries[k].pc = "done",
                                                         !.entries[k].deleted = TRUE]),
                                logCall(CurL, <<"Deleted old log file: ">>
                                                 \o filePath(e.file), NoError))

\* Every callback of every sweep so far has ended.
SweepsQuiet ==
    \A i \in 1..Len(sweeps) :
        /\ sweeps[i].pc = "done"
        /\ \A k \in 1..Len(sweeps[i].entries) : sweeps[i].entries[k].pc = "done"

\* setInterval(() => cleanupOldFiles(...), 24 * 60 * 60 * 1000) fires, a day after
\* the last sweep began.
RetentionTick ==
    /\ Ready
    /\ cleanupInterval
    /\ Len(sweeps) < MaxSweeps
    /\ SweepsQuiet
    /\ dateNow' = dateNow + DayMs
    /\ sweeps' = Append(sweeps, newSweep)
    /\ UNCHANGED <<configVars, errorLogger, logged, uncaught, compressionVars,
                   pipelineVars, closeVars, lifeVars, files, unlinked, genVars>>

(***************************************************************************)
(* Construction: pinoTransportRotatingFile(options) up to its return, and  *)
(* the disabled transport it returns for enabled = false.                  *)
(***************************************************************************)
\* Before createErrorLogger has run there is no buffer, no timer and no sink.
noErrorLogger ==
    [buffer |-> <<>>, flushInterval |-> FALSE, sink |-> <<>>]

\* A transport that takes the disabled branch for no options at all.
isDisabledNever(o) == FALSE

\* if (!enabled) return build((source) => source, {..., close() {}})
isDisabled(o) == ~o.enabled

\* A guard that starts the sweeper also for retentionDays = 0.
retentionEnabledFromZero(days) == days >= 0

\* if (retentionDays > 0)
retentionEnabled(days) == days > 0

\* What exists once the synchronous part of an enabled, valid construction has
\* run: createErrorLogger (with its flush interval), createStream, and with
\* compress the 'rotated' listener.
partsCreated ==
    {"errorLogger", "flushInterval", "rotatingStream"}
        \cup (IF compress THEN {"rotatedListener"} ELSE {})

\* pinoTransportRotatingFile(options) runs up to its return, its throw, or its
\* await cleanupOldFiles(...).
Construct ==
    /\ phase = "new"
    /\ IF isDisabled(options)
         THEN /\ phase' = "disabled"
              /\ UNCHANGED <<errorLogger, created, thrown, sweeps>>
       ELSE IF validate(options) # NoError
         THEN /\ phase' = "failed"
              /\ thrown' = validate(options)
              /\ UNCHANGED <<errorLogger, created, sweeps>>
       ELSE /\ errorLogger' = createErrorLogger
            /\ created' = partsCreated
            /\ thrown' = NoError
            /\ IF retentionEnabled(retentionDays)
                 THEN /\ sweeps' = <<newSweep>>
                      /\ phase' = "sweeping"
                 ELSE /\ sweeps' = <<>>
                      /\ phase' = "active"
    /\ UNCHANGED <<configVars, logged, uncaught, compressionVars, pipelineVars,
                   closeVars, options, forwarded, dateNow, files, unlinked,
                   genVars>>

\* build((source) => source, ...): what comes out of source for a line.
passThrough(c) == c

\* The producer writes its next line to a disabled transport.
ForwardLine ==
    /\ phase = "disabled"
    /\ closeState = "open"
    /\ inbound < MaxLines
    /\ inbound' = inbound + 1
    /\ forwarded' = Append(forwarded, passThrough(chunk(inbound + 1, FALSE)))
    /\ UNCHANGED <<configVars, errorLogger, logged, uncaught, compressionVars,
                   formatFailed, engineLines, loopback, pipelineState, closeVars,
                   options, phase, created, thrown, sweepVars, genVars>>

\* close() {} of the disabled transport: it returns at once.
DisabledClose ==
    /\ phase = "disabled"
    /\ closeState = "open"
    /\ closeState' = "closed"
    /\ UNCHANGED <<configVars, errorLogger, logged, uncaught, compressionVars,
                   pipelineVars, cleanupInterval, engineState, closeTrace,
                   closeMark, restVars>>

\* Option values a caller may pass.
baseOptions ==
    [dir |-> "logs", filename |-> <<"a", "p", "p">>, enabled |-> TRUE,
     size |-> <<"1", "0", "0", "K">>, interval |-> <<"1", "d">>,
     timestampFormat |-> "iso"]

SampleSizes ==
    { <<"1", "0", "0", "K">>, <<"1", "B">>, <<"2", "M">>, <<"1", "0", "G">>,
      <<"1", "T">>, <<"1", "P">>, <<"1", "E">>,
      <<"0", "K">>, <<"0", "0", "M">>, <<"K">>, <<"1", "0">>, <<>>,
      <<"1", "0", "X">>, <<"1", "0", "k">>, <<"1", ".", "5", "M">>,
      <<"-", "1", "K">>, <<"1", "K", "B">>, <<" ", "1", "K">> }

SampleIntervals ==
    { <<"1", "d">>, <<"1", "s">>, <<"5", "m">>, <<"1", "2", "h">>, <<"1", "M">>,
      <<"1", "w">>, <<"1", "y">>,
      <<"0", "d">>, <<"d">>, <<"1">>, <<>>, <<"1", "x">>, <<"1", "D">>,
      <<"1", "d", "d">>, <<"-", "1", "h">> }

SampleFormats == validFormats \cup {"ISO", "", "rfc"}

LifeOptions ==
    LET enabledOnes ==
            {[baseOptions EXCEPT !.size = v] : v \in SampleSizes}
              \cup {[baseOptions EXCEPT !.interval = v] : v \in SampleIntervals}
              \cup {[baseOptions EXCEPT !.timestampFormat = v] : v \in SampleFormats}
              \cup {[baseOptions EXCEPT !.dir = ""]}
    IN  enabledOnes \cup {[o EXCEPT !.enabled = FALSE] : o \in enabledOnes}

\* Date.now() when the transport is constructed.
StartMs == 20 * DayMs

\* The cutoff of a sweep at StartMs with retentionDays = 1.
StartCutoff == cutoffFor(StartMs, 1)

DirMixed ==
    (DirOrder[1] :> entry("file", StartCutoff + 1))
        @@ (DirOrder[2] :> entry("file", StartCutoff - 1))
        @@ (DirOrder[3] :> entry("file", StartCutoff))
        @@ (DirOrder[4] :> entry("file", StartCutoff - 1))
        @@ (DirOrder[5] :> entry("file", StartCutoff - 1))
        @@ (DirOrder[6] :> entry("absent", 0))

DirWorn ==
    (DirOrder[1] :> entry("file", StartCutoff - 1))
        @@ (DirOrder[2] :> entry("file", StartCutoff - 2))
        @@ (DirOrder[3] :> entry("dir", StartCutoff - 1))
        @@ (DirOrder[4] :> entry("file", StartCutoff + 1))
        @@ (DirOrder[5] :> entry("absent", 0))
        @@ (DirOrder[6] :> entry("absent", 0))

DirSmall ==
    (DirOrder[1] :> entry("absent", 0))
        @@ (DirOrder[2] :> entry("file", StartCutoff - 1))
        @@ (DirOrder[3] :> entry("absent", 0))
        @@ (DirOrder[4] :> entry("absent", 0))
        @@ (DirOrder[5] :> entry("absent", 0))
        @@ (DirOrder[6] :> entry("absent", 0))

\* The directory of a running transport: the live file, just written.
DirRunning ==
    [f \in Names |-> IF f = DirOrder[1] THEN entry("file", StartMs)
                     ELSE entry("absent", 0)]

\* Directory base with the rotated paths as s has them.
withRotated(base, s) ==
    [f \in Names |->
        IF IsRotatedName(f) /\ s[rotatedPath(f)] # "absent"
          THEN entry(s[rotatedPath(f)], StartMs)
          ELSE base[f]]

\* Directories the transport may find: modification times just before, at and
\* just after the first sweep's cutoff.
InitialDirs == {DirMixed, DirWorn, DirSmall}

\* The variables of construction and of the sweeper once an enabled transport has
\* been constructed and no sweep is in progress.
Constructed ==
    /\ options = baseOptions
    /\ phase = "active"
    /\ created = partsCreated
                    \cup (IF retentionEnabled(retentionDays)
                            THEN {"cleanupInterval"} ELSE {})
    /\ thrown = NoError
    /\ forwarded = <<>>
    /\ dateNow = StartMs
    /\ files = withRotated(DirRunning, src)
    /\ sweeps = <<>>
    /\ unlinked = {}

\* The variables of the components a specification leaves out.
NoGenerator ==
    /\ genIn = [time |-> [type |-> "null", ms |-> 0], dir |-> <<>>,
                filename |-> <<>>, timestampFormat |-> "undefined",
                tz |-> UTC]
    /\ genOut = [called |-> FALSE, path |-> <<>>]

\* Nothing of a transport exists and nothing has happened.
NotStarted ==
    /\ phase = "new"
    /\ created = {}
    /\ thrown = NoError
    /\ forwarded = <<>>
    /\ dateNow = StartMs
    /\ sweeps = <<>>
    /\ unlinked = {}
    /\ errorLogger = noErrorLogger
    /\ logged = <<>>
    /\ uncaught = FALSE
    /\ src = [p \in Paths |-> files[basename(p)].kind]
    /\ gz = [p \in Paths |-> "absent"]
    /\ tasks = <<>>
    /\ compressedFiles = {}
    /\ ledgerTimers = [p \in Paths |-> 0]
    /\ compressedAt = [p \in Paths |-> 0]
    /\ ledgerDue = [p \in Paths |-> <<>>]
    /\ attempts = [p \in Paths |-> 0]
    /\ cleanupInterval = FALSE
    /\ inbound = 0
    /\ formatFailed = {}
    /\ engineLines = <<>>
    /\ loopback = <<>>
    /\ pipelineState = "up"
    /\ engineState = "open"
    /\ closeState = "open"
    /\ closeTrace = <<>>
    /\ closeMark = 0

LifeInit ==
    /\ options \in LifeOptions
    /\ files \in InitialDirs
    /\ retentionDays \in {0, 1}
    /\ compress \in BOOLEAN
    /\ (options # baseOptions) => (files = DirSmall /\ compress)
    /\ errorLogFile = FALSE
    /\ skipPretty = FALSE
    /\ NotStarted
    /\ NoGenerator

LifeNext ==
    \/ Construct
    \/ Readdir
    \/ StatEntry
    \/ UnlinkEntry
    \/ RetentionTick
    \/ ForwardLine
    \/ DisabledClose

SpecLifecycle == LifeInit /\ [][LifeNext]_vars

(***************************************************************************)
(* The transport after pinoTransportRotatingFile has returned (enabled).   *)
(***************************************************************************)
\* The option sets a run starts from: every value of every option occurs.
Options ==
    { [compress |-> TRUE,  skipPretty |-> FALSE, errorLogFile |-> FALSE,
       retentionDays |-> 30],
      [compress |-> TRUE,  skipPretty |-> TRUE,  errorLogFile |-> TRUE,
       retentionDays |-> 0],
      [compress |-> FALSE, skipPretty |-> FALSE, errorLogFile |-> TRUE,
       retentionDays |-> 30],
      [compress |-> FALSE, skipPretty |-> TRUE,  errorLogFile |-> FALSE,
       retentionDays |-> 0] }

\* What the rotated paths are before the engine's first rotation: nothing yet, or
\* (a misconfigured directory layout) a directory at the first path.
InitialFiles ==
    { [p \in Paths |-> "absent"],
      [p \in Paths |-> IF p = "app-1.log" THEN "dir" ELSE "absent"] }

Init ==
    /\ \E o \in Options :
          /\ errorLogFile = o.errorLogFile
          /\ compress = o.compress
          /\ skipPretty = o.skipPretty
          /\ retentionDays = o.retentionDays
    /\ errorLogger = createErrorLogger
    /\ logged = <<>>
    /\ uncaught = FALSE
    /\ src \in InitialFiles
    /\ gz = [p \in Paths |-> "absent"]
    /\ tasks = <<>>
    /\ compressedFiles = {}
    /\ ledgerTimers = [p \in Paths |-> 0]
    /\ compressedAt = [p \in Paths |-> 0]
    /\ ledgerDue = [p \in Paths |-> <<>>]
    /\ attempts = [p \in Paths |-> 0]
    /\ cleanupInterval = (retentionDays > 0)
    /\ inbound = 0
    /\ formatFailed = {}
    /\ engineLines = <<>>
    /\ loopback = <<>>
    /\ pipelineState = "up"
    /\ engineState = "open"
    /\ closeState = "open"
    /\ closeTrace = <<>>
    /\ closeMark = 0
    /\ Constructed
    /\ NoGenerator

Next ==
    \/ FlushTick
    \/ SinkWritten
    \/ SinkFailed
    \/ Rotated
    \/ StatRotated
    \/ ExistsSrc
    \/ StatSrc
    \/ StreamSettled
    \/ VerifyDest
    \/ UnlinkSrc
    \/ LedgerExpire
    \/ WriteLine
    \/ PipelineCallback
    \/ Close
    \/ EngineEnded
    \/ CloseReturn

Spec == Init /\ [][Next]_vars

\* The continuation of close's await is a promise job: once the promise is resolved
\* the event loop runs it.
FairSpec == Spec /\ WF_vars(CloseReturn)

\* What the event loop guarantees: an armed timer fires, a started file operation
\* or stream settles, a due callback is called.  When the producer writes, the
\* engine rotates or the owner calls close is up to them.
LiveSpec ==
    /\ Spec
    /\ WF_vars(FlushTick)
    /\ WF_vars(SinkWritten \/ SinkFailed)
    /\ WF_vars(StatRotated \/ ExistsSrc \/ StatSrc \/ StreamSettled
                  \/ VerifyDest \/ UnlinkSrc)
    /\ WF_vars(LedgerExpire)
    /\ WF_vars(PipelineCallback)
    /\ WF_vars(EngineEnded)
    /\ WF_vars(CloseReturn)

(***************************************************************************)
(* The ledger in time: the 'rotated' listener with a clock.  Time passes   *)
(* in steps of half a day between the steps of the listeners, and never    *)
(* past a pending timeout: a timeout fires when its delay has passed.      *)
(***************************************************************************)
HalfDayMs == 12 * 60 * 60 * 1000

\* Date.now() moves on by half a day.
Advance ==
    /\ Ready
    /\ dateNow + HalfDayMs <= StartMs + MaxAdvances * HalfDayMs
    /\ \A due \in PendingDue : dateNow + HalfDayMs <= due
    /\ dateNow' = dateNow + HalfDayMs
    /\ UNCHANGED <<configVars, errorLogger, logged, uncaught, compressionVars,
                   pipelineVars, closeVars, lifeVars, files, sweeps, unlinked,
                   genVars>>

LedgerInit ==
    /\ Init
    /\ compress
    /\ ~errorLogFile

LedgerNext ==
    \/ Rotated
    \/ StatRotated
    \/ ExistsSrc
    \/ StatSrc
    \/ StreamSettled
    \/ VerifyDest
    \/ UnlinkSrc
    \/ LedgerExpire
    \/ Advance

SpecLedger == LedgerInit /\ [][LedgerNext]_vars

(***************************************************************************)
(* Sweeper and compression on one directory: the transport from its        *)
(* construction on, with retention and compression enabled.  The 'rotated' *)
(* listener is registered before the startup sweep is awaited, so the      *)
(* listeners run while that sweep is in progress.  A .gz written during    *)
(* the run is newer than the cutoff of the sweep.                          *)
(***************************************************************************)
\* The live file was last written before the cutoff; nothing has been rotated.
DirIdle ==
    [DirRunning EXCEPT ![DirOrder[1]] = entry("file", StartCutoff - 1)]

RaceDirs == {DirIdle, DirSmall}

RaceInit ==
    /\ options = baseOptions
    /\ files \in RaceDirs
    /\ retentionDays = 1
    /\ compress = TRUE
    /\ errorLogFile = FALSE
    /\ skipPretty = FALSE
    /\ NotStarted
    /\ NoGenerator

RaceNext ==
    \/ Construct
    \/ Readdir
    \/ StatEntry
    \/ UnlinkEntry
    \/ Rotated
    \/ StatRotated
    \/ ExistsSrc
    \/ StatSrc
    \/ StreamSettled
    \/ VerifyDest
    \/ UnlinkSrc

SpecRace == RaceInit /\ [][RaceNext]_vars

(***************************************************************************)
(* The Error Logger alone, driven by arbitrary callers: log calls up to    *)
(* its capacity and beyond, the flush timer, destroy.                      *)
(***************************************************************************)
LoggerInit ==
    /\ errorLogFile \in BOOLEAN
    /\ compress = FALSE
    /\ skipPretty = FALSE
    /\ retentionDays = 0
    /\ errorLogger = createErrorLogger
    /\ logged = <<>>
    /\ uncaught = FALSE
    /\ src = [p \in Paths |-> "absent"]
    /\ gz = [p \in Paths |-> "absent"]
    /\ tasks = <<>>
    /\ compressedFiles = {}
    /\ ledgerTimers = [p \in Paths |-> 0]
    /\ compressedAt = [p \in Paths |-> 0]
    /\ ledgerDue = [p \in Paths |-> <<>>]
    /\ attempts = [p \in Paths |-> 0]
    /\ cleanupInterval = FALSE
    /\ inbound = 0
    /\ formatFailed = {}
    /\ engineLines = <<>>
    /\ loopback = <<>>
    /\ pipelineState = "up"
    /\ engineState = "open"
    /\ closeState = "open"
    /\ closeTrace = <<>>
    /\ closeMark = 0
    /\ Constructed
    /\ NoGenerator

\* The number of lines of a text: its line ends.
LineCount(text) == Cardinality({i \in 1..Len(text) : text[i] = "\n"})

\* The sink writes made so far by the timer or by destroy: those of fewer lines
\* than the capacity.
TimerWrites ==
    Cardinality({i \in 1..Len(errorLogger.sink) :
                    LineCount(errorLogger.sink[i].text) < bufferSize})

\* Some component calls errorLogger.log(message).
LoggerLog ==
    /\ Ready
    /\ Len(logged) < MaxLogCalls
    /\ SetL(logCall(CurL, <<"diagnostic">>, NoError))
    /\ UNCHANGED <<configVars, restVars, uncaught, compressionVars, pipelineVars,
                   closeVars>>

\* The flush timer fires.
LoggerTick ==
    /\ errorLogger.buffer = <<>> \/ TimerWrites < MaxTimerWrites
    /\ FlushTick

\* errorLogger.destroy(), called once.
LoggerDestroy ==
    /\ Ready
    /\ errorLogger.flushInterval
    /\ errorLogger.buffer = <<>> \/ TimerWrites < MaxTimerWrites
    /\ errorLogger' = destroy(errorLogger)
    /\ UNCHANGED <<configVars, restVars, logged, uncaught, compressionVars, pipelineVars,
                   closeVars>>

LoggerNext ==
    \/ LoggerLog
    \/ LoggerTick
    \/ LoggerDestroy

SpecErrorLogger == LoggerInit /\ [][LoggerNext]_vars

(***************************************************************************)
(* The Filename Generator alone: one call with arbitrary arguments.        *)
(***************************************************************************)
\* A name of n characters.
longName(n) == [i \in 1..n |-> "x"]

GenTimes ==
    {[type |-> "null", ms |-> 0]}
        \cup {[type |-> "number", ms |-> t] :
                 t \in {0, 1, 999, 1500, DayMs - 1, DayMs, 2000000000}}
        \cup {[type |-> "Date", ms |-> t] : t \in {0, 1500, 2000000000}}

GenDirs == { <<"l", "o", "g", "s">>, <<"/", "v", "a", "r", "/", "l", "o", "g", "/">> }

GenFilenames ==
    { <<"a", "p", "p">>, longName(100), longName(190), longName(196),
      longName(197), longName(250) }

GenFormats == validFormats \cup {"undefined", "ISO"}

TimeZones == {UTC, EST}

GenInit ==
    /\ genIn \in [time : GenTimes, dir : GenDirs, filename : GenFilenames,
                   timestampFormat : GenFormats, tz : TimeZones]
    /\ genOut = [called |-> FALSE, path |-> <<>>]
    /\ options = baseOptions
    /\ files = DirSmall
    /\ errorLogFile = FALSE
    /\ compress = FALSE
    /\ skipPretty = FALSE
    /\ retentionDays = 0
    /\ NotStarted

\* The rotation engine (or any caller) calls generator.
Generate ==
    /\ ~genOut.called
    /\ genOut' = [called |-> TRUE,
                  path |-> generator(genIn.time, genIn.dir, genIn.filename,
                                     genIn.timestampFormat)]
    /\ UNCHANGED <<configVars, errorLogger, logged, uncaught, compressionVars,
                   pipelineVars, closeVars, lifeVars, sweepVars, genIn>>

SpecGenerator == GenInit /\ [][Generate]_vars

(***************************************************************************)
(* Properties.                                                             *)
(***************************************************************************)
SinkTexts == [i \in 1..Len(errorLogger.sink) |-> errorLogger.sink[i].text]

\* C1: with compression enabled, at most one compression pipeline is started for
\* the same path within the dedup window, whatever the order of the 'rotated'
\* notifications, also when the second one arrives while the first compression is
\* still in progress.
C1_AtMostOneAttempt ==
    compress => \A p \in Paths : attempts[p] <= 1

\* Task h is a compressFile of path p suspended at its unlink.
IsUnlinkOf(h, p) == tasks[h].path = p /\ tasks[h].pc = "unlink"

\* C2: a source file is deleted only by a compressFile whose gzip pipeline has
\* completed and whose destination has been verified to exist; the step in which a
\* stat, the pipeline or the verification fails leaves the source file in place.
C2_Step ==
    /\ \A p \in Paths :
          (src[p] = "file" /\ src'[p] = "absent")
             => \E h \in 1..Len(tasks) :
                   /\ IsUnlinkOf(h, p)
                   /\ tasks[h].streamed /\ tasks[h].verified
                   /\ gz[p] # "absent"
                   /\ tasks'[h].unlinked
    /\ \A h \in 1..Len(tasks) :
          (tasks[h].pc \in {"stat", "cstat", "stream", "verify"}
             /\ tasks'[h].failed)
             => /\ src' = src
                /\ ~tasks'[h].unlinked
    /\ \A h \in 1..Len(tasks') :
          tasks'[h].pc = "unlink" => tasks'[h].streamed /\ tasks'[h].verified

C2_DeleteOnlyAfterVerified == [][C2_Step]_vars

\* C2 witness: one compressFile has deleted its source after a verified
\* compression, and another failed at the verification with its source in place.
C2_Witness ==
    \E h1, h2 \in 1..Len(tasks) :
        /\ tasks[h1].unlinked /\ src[tasks[h1].path] = "absent"
        /\ gz[tasks[h1].path] = "complete"
        /\ tasks[h2].failed /\ tasks[h2].streamed /\ ~tasks[h2].verified
        /\ src[tasks[h2].path] = "file"

\* The lines logged by the listener's catch for path p.
ListenerReports(p) ==
    {i \in 1..Len(logged) :
        /\ logged[i][3] = "Error compressing rotated file "
        /\ logged[i][4] = p}

FailedTasks(p) ==
    {h \in 1..Len(tasks) : tasks[h].path = p /\ tasks[h].failed}

\* C3: no invocation of the 'rotated' listener ends rejected; every failure in it
\* (stat of the rotated file, and in compressFile stat, streaming, verification,
\* unlink) ends the listener resolved, with one line of the listener's catch in
\* the Error Logger per failed invocation.
C3_ListenerNeverRejects ==
    /\ \A h \in 1..Len(tasks) :
          /\ tasks[h].outcome # "rejected"
          /\ tasks[h].failed => tasks[h].reported /\ tasks[h].outcome = "resolved"
    /\ \A p \in Paths :
          Cardinality(ListenerReports(p)) = Cardinality(FailedTasks(p))

\* C3 witness: one invocation failed at stat of the rotated file and another inside
\* compressFile after streaming; both have ended.
C3_Witness ==
    \E h1, h2 \in 1..Len(tasks) :
        /\ tasks[h1].failed /\ ~tasks[h1].streamed /\ tasks[h1].pc = "done"
        /\ tasks[h2].failed /\ tasks[h2].streamed /\ tasks[h2].pc = "done"

\* C4: with skipPretty = false, every line that arrives after a line whose
\* formatting failed is still written to the rotation engine.
C4_IngestionContinues ==
    ~skipPretty =>
        \A n \in 1..inbound :
            (\E m \in formatFailed : m < n)
                => \E i \in 1..Len(engineLines) : engineLines[i].line = n

\* C5: the Error Logger never produces an unhandled fault, also when the error
\* file cannot be opened or written.
C5_NeverRaises == ~uncaught

\* C6: the texts handed to the sink so far, concatenated in the order they were
\* handed over, followed by the lines still in the buffer, are exactly the lines
\* logged so far in log order: no line is lost, duplicated or reordered by a flush
\* (by the timer, by reaching capacity, or by destroy).
C6_NoLineLostOrDuplicated ==
    join(SinkTexts) \o join(errorLogger.buffer) = join(logged)

\* C6 witness: a capacity flush and another flush have happened, destroy has run,
\* and lines logged since are in the buffer.
C6_Witness ==
    /\ Len(errorLogger.sink) >= 2
    /\ \E i \in 1..Len(errorLogger.sink) :
          LineCount(errorLogger.sink[i].text) = bufferSize
    /\ ~errorLogger.flushInterval
    /\ errorLogger.buffer # <<>>

\* One step of the logger is a log call.
IsLogStep == Len(logged') = Len(logged) + 1

\* C7: with capacity 100, a log call that leaves fewer than 100 lines in the buffer
\* hands nothing to the sink; the log call that brings the buffer to 100 lines
\* makes exactly one sink write, holding those 100 lines, and empties the buffer;
\* a timer tick on a non-empty buffer makes exactly one sink write of the buffer and
\* empties it; a tick on an empty buffer writes nothing; the buffer never holds 100
\* or more lines between operations.
C7_Step ==
    LET buffer == errorLogger.buffer
        sink == errorLogger.sink
        line == logged'[Len(logged')]
    IN  /\ Len(buffer) < bufferSize
        /\ Len(errorLogger'.buffer) < bufferSize
        /\ (IsLogStep /\ Len(buffer) + 1 < bufferSize)
              => /\ errorLogger'.sink = sink
                 /\ errorLogger'.buffer = Append(buffer, line)
        /\ (IsLogStep /\ Len(buffer) + 1 = bufferSize)
              => /\ errorLogger'.sink
                       = Append(sink, sinkWrite(join(Append(buffer, line))))
                 /\ LineCount(errorLogger'.sink[Len(sink) + 1].text) = bufferSize
                 /\ errorLogger'.buffer = <<>>
        /\ (FlushTick /\ buffer # <<>>)
              => /\ errorLogger'.sink = Append(sink, sinkWrite(join(buffer)))
                 /\ errorLogger'.buffer = <<>>
        /\ (FlushTick /\ buffer = <<>>)
              => errorLogger'.sink = sink

C7_CapacityAndTimerFlush == [][C7_Step]_vars

\* C7 witness: the 100th line since the last flush has been logged: the sink holds a
\* text of 100 lines, a timer flush came before it, and the buffer is empty.
C7_Witness ==
    /\ Len(errorLogger.sink) = 2
    /\ LineCount(errorLogger.sink[1].text) < bufferSize
    /\ LineCount(errorLogger.sink[2].text) = bufferSize
    /\ errorLogger.buffer = <<>>
    /\ errorLogger.flushInterval

\* C8 (safety part): close has called destroy, then clearInterval, then end, in this
\* order and at once; after the call the flush timer and the retention timer are
\* cancelled and the engine has been asked to end; close has returned only if the
\* engine has signalled that end finished.
C8_Order ==
    /\ closeState = "open" => closeTrace = <<>>
    /\ closeState # "open"
          => /\ closeTrace
                  = <<"errorLogger.destroy", "clearInterval", "rotatingStream.end">>
             /\ ~errorLogger.flushInterval
             /\ ~cleanupInterval
             /\ engineState # "open"
    /\ closeState = "closed" => engineState = "finished"

\* C8: the order above always holds, the call of close flushes the buffer, and
\* whenever the engine has signalled the end, close returns.
C8_CloseOrderAndCompletion ==
    /\ []C8_Order
    /\ [][closeState = "open" /\ closeState' # "open"
             => /\ closeState' = "awaiting"
                /\ errorLogger' = destroy(errorLogger)]_vars
    /\ (closeState = "awaiting" /\ engineState = "finished")
          ~> (closeState = "closed")

\* C8 witness: close has returned after a final flush of a non-empty buffer.
C8_Witness ==
    /\ closeState = "closed"
    /\ engineState = "finished"
    /\ closeMark > 0
    /\ errorLogger.sink # <<>>

\* C9: after close has returned no timer of the transport is armed: not the flush
\* interval, not the retention interval, and no ledger expiry timeout.
C9_NoTimerAfterClose ==
    closeState = "closed"
        => /\ ~errorLogger.flushInterval
           /\ ~cleanupInterval
           /\ \A p \in Paths : ledgerTimers[p] = 0

\* The sink writes that hold a line logged before close was called.
WritesBeforeClose ==
    {i \in 1..Len(errorLogger.sink) :
        \E k \in 1..closeMark :
            \E j \in 1..Len(errorLogger.sink[i].text) :
                errorLogger.sink[i].text[j] = logged[k][1]}

\* C10: when close has returned, every line logged before close was called has
\* been written to the error file or the console, and the buffer is empty.
C10_FlushedWhenCloseReturns ==
    closeState = "closed"
        => /\ errorLogger.buffer = <<>>
           /\ \A i \in WritesBeforeClose : errorLogger.sink[i].status = "written"

\* C11: once close has been requested on an active transport, no step writes a
\* line to the rotation engine or takes one into the pipeline: the lines the
\* engine has received, and those routed through source, stay as they were when
\* close was called, also for a line the producer writes afterwards.
C11_Step ==
    closeState # "open"
        => /\ engineLines' = engineLines
           /\ loopback' = loopback
           /\ formatFailed' = formatFailed

C11_NoWriteAfterClose == [][C11_Step]_vars

\* C11 witness: close has returned, and a line written after close was called
\* reached nothing: the pipeline is intact, one line of two is in the engine.
C11_Witness ==
    /\ closeState = "closed"
    /\ pipelineState = "up"
    /\ formatFailed = {}
    /\ inbound = 2
    /\ Len(engineLines) = 1

\* The name starts with filename and ends with '.log' or '.log.gz'.
IsLogName(f) ==
    /\ Len(f) >= Len(options.filename)
    /\ \A j \in 1..Len(options.filename) : f[j] = options.filename[j]
    /\ \/ /\ Len(f) >= 4
          /\ <<f[Len(f) - 3], f[Len(f) - 2], f[Len(f) - 1], f[Len(f)]>>
                = <<".", "l", "o", "g">>
       \/ /\ Len(f) >= 7
          /\ <<f[Len(f) - 6], f[Len(f) - 5], f[Len(f) - 4], f[Len(f) - 3],
               f[Len(f) - 2], f[Len(f) - 1], f[Len(f)]>>
                = <<".", "l", "o", "g", ".", "g", "z">>

\* Sweep i, listed at instant listedAt, is deleting entry f in this step.
IsSweepUnlinkOf(i, f) ==
    /\ sweeps[i].pc # "readdir"
    /\ ~sweeps[i].listFailed
    /\ \E k \in 1..Len(sweeps[i].entries) :
          /\ sweeps[i].entries[k].file = f
          /\ sweeps[i].entries[k].pc = "unlink"
          /\ sweeps'[i].entries[k].deleted

\* C12: a step of a run of cleanupOldFiles changes a directory entry only by
\* deleting it, and only if its name starts with filename, ends with '.log' or
\* '.log.gz', and its modification time is strictly older than the instant of the
\* run minus retentionDays * 24 h; every other entry is left as it was.
C12_Step ==
    \A f \in Names :
        files'[f] # files[f]
            => /\ files[f].kind = "file"
               /\ files'[f].kind = "absent"
               /\ IsLogName(f)
               /\ \E i \in 1..Len(sweeps) :
                     /\ IsSweepUnlinkOf(i, f)
                     /\ files[f].mtimeMs
                           < sweeps[i].listedAt
                               - retentionDays * 24 * 60 * 60 * 1000

C12_SweepDeletesOnlyExpiredLogs == [][C12_Step]_vars

\* C12 witness: a sweep has ended after deleting an expired log; a log modified
\* exactly at the cutoff, a newer log, and older files whose names do not match
\* are still there.
C12_Witness ==
    /\ Len(sweeps) = 1
    /\ SweepsQuiet
    /\ files[DirOrder[2]].kind = "absent"
    /\ \E u \in unlinked : u.file = DirOrder[2]
    /\ files[DirOrder[1]] = DirMixed[DirOrder[1]]
    /\ files[DirOrder[3]].kind = "file"
    /\ files[DirOrder[3]].mtimeMs = sweeps[1].cutoff
    /\ files[DirOrder[4]].kind = "file"
    /\ files[DirOrder[4]].mtimeMs < sweeps[1].cutoff
    /\ files[DirOrder[5]].kind = "file"

\* The failures of the sweeps so far: a failed listing, or a failed stat or unlink
\* of one file.
SweepFailures ==
    {<<i, 0>> : i \in {j \in 1..Len(sweeps) : sweeps[j].listFailed}}
        \cup {ik \in (1..Len(sweeps)) \X (1..Len(DirOrder)) :
                /\ ik[2] <= Len(sweeps[ik[1]].entries)
                /\ sweeps[ik[1]].entries[ik[2]].failed}

\* The lines logged by the catch of cleanupOldFiles.
CleanupReports ==
    {j \in 1..Len(logged) : logged[j][3] = "Error during log file cleanup in "}

\* C13: every failure of a sweep (of the listing, or of stat or unlink on one
\* matching file) is logged, each by a line of its own, and every expired matching
\* file whose own stat and unlink did not fail is deleted by the sweep, whatever
\* happened to the other files.
C13_FailuresLoggedOthersDeleted ==
    /\ Cardinality(CleanupReports) = Cardinality(SweepFailures)
    /\ \A i \in 1..Len(sweeps) :
          \A k \in 1..Len(sweeps[i].entries) :
              LET e == sweeps[i].entries[k]
              IN  (e.pc = "done" /\ ~e.failed /\ ~e.deleted)
                     => \/ files[e.file].kind = "absent"
                        \/ files[e.file].mtimeMs >= sweeps[i].cutoff

\* C14: with retentionDays = 0 no sweep is ever run, the retention timer is never
\* armed, and no entry of the directory is deleted or changed.
C14_NoSweepWithoutRetention ==
    retentionDays = 0
        => /\ sweeps = <<>>
           /\ ~cleanupInterval
           /\ "cleanupInterval" \notin created
           /\ unlinked = {}
           /\ files \in InitialDirs

\* C14 witness: a transport with retentionDays = 0 is active over a directory whose
\* logs are all older than a day.
C14_Witness ==
    /\ retentionDays = 0
    /\ options.enabled
    /\ phase = "active"
    /\ files = DirWorn
    /\ "rotatingStream" \in created

\* C15: with enabled = false, whatever the other options are, construction does
\* not fail and creates nothing (no Error Logger and flush timer, no rotation
\* engine, no listener, no sweep, no retention timer), no file is touched, the
\* lines forwarded are the inbound lines, unchanged and in order, and close returns
\* at once, without waiting.
C15_DisabledPassThrough ==
    ~options.enabled
        => /\ phase \in {"new", "disabled"}
           /\ thrown = NoError
           /\ created = {}
           /\ errorLogger = noErrorLogger
           /\ sweeps = <<>>
           /\ ~cleanupInterval
           /\ unlinked = {}
           /\ files \in InitialDirs
           /\ engineLines = <<>>
           /\ forwarded = [n \in 1..inbound |-> [line |-> n, pretty |-> FALSE]]
           /\ closeState \in {"open", "closed"}
           /\ closeTrace = <<>>

\* C15 witness: a disabled transport with an invalid size has forwarded two lines
\* and has been closed.
C15_Witness ==
    /\ ~options.enabled
    /\ options.size = <<"1", "0", "X">>
    /\ retentionDays = 1
    /\ phase = "disabled"
    /\ Len(forwarded) = 2
    /\ closeState = "closed"

\* Option values that are invalid: no <positive integer><unit> string, or no
\* timestamp format of the five.
InvalidSizes ==
    { <<"0", "K">>, <<"0", "0", "M">>, <<"K">>, <<"1", "0">>, <<>>,
      <<"1", "0", "X">>, <<"1", "0", "k">>, <<"1", ".", "5", "M">>,
      <<"-", "1", "K">>, <<"1", "K", "B">>, <<" ", "1", "K">> }

InvalidIntervals ==
    { <<"0", "d">>, <<"d">>, <<"1">>, <<>>, <<"1", "x">>, <<"1", "D">>,
      <<"1", "d", "d">>, <<"-", "1", "h">> }

InvalidFormats == {"ISO", "", "rfc"}

HasInvalidOption ==
    \/ options.dir = ""
    \/ options.size \in InvalidSizes
    \/ options.interval \in InvalidIntervals
    \/ options.timestampFormat \in InvalidFormats

\* C16: with enabled = true, a missing dir or an invalid size, interval or
\* timestampFormat makes construction fail, and nothing of the transport exists
\* when it has failed: no Error Logger and flush timer, no rotation engine, no
\* listener, no sweep, no retention timer, and no file has been touched.
C16_InvalidOptionsFailCleanly ==
    (options.enabled /\ HasInvalidOption /\ phase # "new")
        => /\ phase = "failed"
           /\ thrown # NoError
           /\ created = {}
           /\ errorLogger = noErrorLogger
           /\ sweeps = <<>>
           /\ ~cleanupInterval
           /\ unlinked = {}
           /\ files \in InitialDirs

\* C16 witness: construction with size '0K', compression and retention has failed.
C16_Witness ==
    /\ options.enabled
    /\ options.size = <<"0", "K">>
    /\ compress
    /\ retentionDays = 1
    /\ phase = "failed"
    /\ thrown = "Size must be positive"

\* C17: with skipPretty = true the lines the rotation engine has received are the
\* inbound lines, each once, unchanged and in arrival order (all of them while
\* the transport is open), and no line has been routed back into the input of
\* the pipeline.
C17_SkipPrettyIdentity ==
    skipPretty
        => /\ Len(engineLines) <= inbound
           /\ \A i \in 1..Len(engineLines) :
                 engineLines[i] = [line |-> i, pretty |-> FALSE]
           /\ closeState = "open" => Len(engineLines) = inbound
           /\ loopback = <<>>

\* Sizes and intervals in the units the README lists, each with a positive
\* magnitude.
DocumentedSizes ==
    { <<"1", "0", "0", "K">>, <<"2", "M">>, <<"1", "0", "G">>,
      <<"1", "T">>, <<"1", "P">>, <<"1", "E">> }

DocumentedIntervals ==
    { <<"1", "s">>, <<"5", "m">>, <<"1", "2", "h">>, <<"1", "d">>, <<"1", "w">>,
      <<"1", "M">>, <<"1", "y">> }

\* C20: a size with unit K, M, G, T, P or E and an interval with unit s, m, h, d,
\* w, M or y, each with a positive magnitude, pass validation: construction with
\* them (dir given, a valid timestamp format) does not fail.
C20_DocumentedUnitsAccepted ==
    ( /\ options.enabled
      /\ options.dir # ""
      /\ options.size \in DocumentedSizes
      /\ options.interval \in DocumentedIntervals
      /\ options.timestampFormat \in {"iso", "unix", "utc", "rfc2822", "epoch"}
      /\ phase # "new" )
        => /\ phase # "failed"
           /\ thrown = NoError

\* The directory given to generator ends with a separator, or one is added.
GenDirPrefix ==
    IF genIn.dir[Len(genIn.dir)] = "/" THEN genIn.dir ELSE genIn.dir \o <<"/">>

\* The file-name component of the path generator returned.
GenBaseName ==
    SubSeq(genOut.path, Len(GenDirPrefix) + 1, Len(genOut.path))

\* C18: generator returns the live path dir/filename.log if and only if the
\* instant is null; for every supplied instant, the number 0 included, and every
\* format, the name is filename-<timestamp>.log with a non-empty timestamp (seen
\* on names short enough not to be cut).
C18_LivePathIffNoInstant ==
    genOut.called
        => /\ (genOut.path = GenDirPrefix \o genIn.filename \o <<".", "l", "o", "g">>)
                 <=> (genIn.time.type = "null")
           /\ (genIn.time.type # "null" /\ Len(genIn.filename) <= 100)
                 => /\ SubSeq(GenBaseName, 1, Len(genIn.filename) + 1)
                          = genIn.filename \o <<"-">>
                    /\ SubSeq(GenBaseName, Len(GenBaseName) - 3, Len(GenBaseName))
                          = <<".", "l", "o", "g">>
                    /\ Len(GenBaseName) > Len(genIn.filename) + 5

\* C19: for every supplied instant, directory, base name and format, the file-name
\* component of the path generator returned has at most 200 characters.
C19_NameAtMost200 ==
    (genOut.called /\ genIn.time.type # "null")
        => Len(GenBaseName) <= 200

\* Task h went through the whole of compressFile: gzip written, destination
\* verified, source unlinked.
Compressed(h) ==
    tasks[h].streamed /\ tasks[h].verified /\ tasks[h].unlinked

\* C21: a path is recorded in the ledger only after its compression succeeded
\* (gzip verified, source deleted); a 'rotated' notification whose compression was
\* skipped (source gone or a directory) or failed records nothing and arms no
\* expiry timeout.
C21_RecordedOnlyAfterSuccess ==
    \A h \in 1..Len(tasks) : tasks[h].recorded => Compressed(h)

\* C22: every ledger entry is removed 24 hours after it was recorded: the ledger
\* never holds an entry older than MAX_COMPRESSION_AGE, and an entry is never
\* removed before its own 24 hours have passed.
C22_EntryLives24Hours ==
    [][/\ \A p \in compressedFiles' :
             dateNow' - compressedAt'[p] <= MAX_COMPRESSION_AGE
       /\ \A p \in compressedFiles \ compressedFiles' :
             dateNow' - compressedAt[p] >= MAX_COMPRESSION_AGE]_vars

\* A listener moves on from a call on its rotated file (stat, access, unlink)
\* and finds the file gone.
LosingTaskStep ==
    \E h \in 1..Len(tasks) :
        /\ tasks'[h] # tasks[h]
        /\ tasks[h].pc \in {"stat", "exists", "cstat", "unlink"}
        /\ src[tasks[h].path] = "absent"

\* A callback of a sweep moves on and finds its file gone.
LosingEntryStep ==
    \E i \in 1..Len(sweeps) :
        \E k \in 1..Len(sweeps[i].entries) :
            /\ sweeps'[i].entries[k] # sweeps[i].entries[k]
            /\ files[sweeps[i].entries[k].file].kind = "absent"

ErrorOf(line) == line[Len(line) - 1]

\* C23: when a retention sweep and a compression work on the same rotated file,
\* in whatever order their steps interleave, the one that finds the file already
\* gone does not fail fatally: its step ends its own work with diagnostic lines
\* only -- no uncaught exception, no rejected listener, no throw out of the
\* construction that awaits the sweep, and the line pipeline and the engine are
\* left as they were.
C23_Step ==
    (LosingTaskStep \/ LosingEntryStep)
        => /\ ~uncaught'
           /\ \A h \in 1..Len(tasks') : tasks'[h].outcome # "rejected"
           /\ \A h \in 1..Len(tasks) :
                 (tasks'[h] # tasks[h] /\ src[tasks[h].path] = "absent")
                    => tasks'[h].pc = "done" /\ tasks'[h].outcome = "resolved"
           /\ thrown' = NoError
           /\ phase' \in {"sweeping", "active"}
           /\ UNCHANGED <<pipelineVars, engineState, closeState>>
           /\ Len(logged') \in Len(logged)..(Len(logged) + 2)
           /\ SubSeq(logged', 1, Len(logged)) = logged

C23_LoserOfRaceNotFatal == [][C23_Step]_vars

C23_Witness ==
    /\ \E h \in 1..Len(tasks) :
          /\ tasks[h].pc = "done"
          /\ tasks[h].failed
          /\ \E u \in unlinked : u.file = basename(tasks[h].path)
    /\ \E j \in 1..Len(logged) :
          /\ logged[j][3] = "Error compressing rotated file "
          /\ ErrorOf(logged[j]) = "ENOENT"
    /\ \E i \in 1..Len(sweeps) :
          \E k \in 1..Len(sweeps[i].entries) :
              /\ sweeps[i].entries[k].failed
              /\ \E h \in 1..Len(tasks) :
                    /\ tasks[h].unlinked
                    /\ basename(tasks[h].path) = sweeps[i].entries[k].file
    /\ \E j \in 1..Len(logged) :
          /\ logged[j][3] = "Error during log file cleanup in "
          /\ ErrorOf(logged[j]) = "ENOENT"
    /\ phase = "active"
    /\ ~uncaught

\* C24: compression never loses log data: for every rotated file that a compression
\* has deleted and the retention sweep has not, the source exists (again) with its
\* content or the .gz beside it holds the complete compressed content -- for every
\* interleaving, two listeners working on the same path included.
C24_NoLogDataLost ==
    \A p \in Paths :
        (/\ \E h \in 1..Len(tasks) : tasks[h].path = p /\ tasks[h].unlinked
         /\ \A u \in unlinked : u.file # basename(p))
            => (src[p] = "file" \/ gz[p] = "complete")

\* C25: a retention sweep never deletes the live file dir/filename.log that the
\* rotation engine has open, neither at startup (the engine is created before the
\* first sweep) nor in a daily sweep.
C25_LiveFileNeverSwept ==
    ("rotatingStream" \in created)
        => \A u \in unlinked : u.file # liveName

\* C26: every rotated file name generator produces for a base name is matched by
\* the retention filter for that base name (it starts with the base name and ends
\* in '.log', and with '.gz' appended in '.log.gz'), for every length of the base
\* name and every format.
C26_RotatedNamesMatchFilter ==
    (genOut.called /\ genIn.time.type # "null")
        => /\ matchesFilter(GenBaseName, genIn.filename)
           /\ matchesFilter(GenBaseName \o <<".", "g", "z">>, genIn.filename)

\* C27: every line passed to log is eventually written to the sink: a line that
\* is in the buffer leaves it in a flush, also when it was logged after destroy
\* has run (by a compression that ends, or a 'rotated' notification that arrives,
\* after close).
C27_EveryLineReachesSink ==
    (errorLogger.buffer # <<>>) ~> (errorLogger.buffer = <<>>)

====
